---- MODULE Spec2Model ----
(***************************************************************************)
(* Chunked bulk-data transfer of the DPF client: the sender                *)
(* _data_chunk_yielder, the receiver _data_get_chunk_ (scoping.py) and the *)
(* chunked read of Field._get_data (field.py).                             *)
(*                                                                         *)
(* Arrays are sequences of elements.  An integer element is [i |-> n], a   *)
(* float64 element is [f |-> its 8 bytes] (IEEE-754, little endian).       *)
(* Payloads are sequences of bytes (0..255), as tobytes() / frombuffer()   *)
(* see them.                                                               *)
(***************************************************************************)
EXTENDS Integers, Sequences, FiniteSets, TLC

\* ------------------------------------------------------------------ bounds
\* Longest array handed to the sender.
MaxLen == 3
\* Largest chunk byte budget tried (every budget 1..MaxBudget is tried).
MaxBudget == 66
\* `out` and `consumed` record the first MaxMsgs messages only; only a send whose
\* loop does not advance emits more (MaxMsgs > MaxLen, MaxMsgs > MaxChunks).
MaxMsgs == 5
\* The transport holds at most MaxQueue messages the receiver has not read yet.
MaxQueue == 2
\* Server streams: at most MaxChunks chunks of at most MaxChunkLen elements.
MaxChunks == 3
MaxChunkLen == 2
\* The progress bar's threshold, 1e6 in the code (scoping.py:331, 370), brought
\* down to the model's arrays.
BarThreshold == 1
\* field_from_array: arrays of up to MaxLen rows and up to MaxCols columns.
MaxCols == 6

\* ------------------------------------------------------------ element kinds
\* dtype arguments the receiver is called with: np.int32, np.float (the builtin
\* float, field.py:309) and np.float64 (the type of a float64 array's elements).
DTypes == {"int32", "float", "float64"}
\* dtypes of the arrays the sender is handed.
ArrayDTypes == {"int32", "float64"}

\* np.dtype(dtype).itemsize
itemsize(dt) == IF dt = "int32" THEN 4 ELSE 8

\* sys.getsizeof(data[0]): the size of the numpy scalar OBJECT (CPython, 64 bit:
\* a 24-byte object header followed by the item), not the item's size.
\* (a slip: the budget taken as a number of elements, nothing divided out)
getsizeof_one(dt) == 1
getsizeof(dt) == 24 + itemsize(dt)

\* float64 values, as their 8 bytes: 1.0 and 2.0
F1 == <<0, 0, 0, 0, 0, 0, 240, 63>>
F2 == <<0, 0, 0, 0, 0, 0, 0, 64>>
Vals(dt) == IF dt = "int32" THEN {[i |-> -1], [i |-> 258]} ELSE {[f |-> F1], [f |-> F2]}
Arrays(dt) == UNION {[1..n -> Vals(dt)] : n \in 0..MaxLen}

\* ------------------------------------------------------------------- bytes
RECURSIVE Flatten(_)
Flatten(ss) == IF ss = <<>> THEN <<>> ELSE Head(ss) \o Flatten(Tail(ss))

\* One element in its native byte layout (int32: two's complement, little endian).
ElemBytes(dt, e) ==
    IF dt = "int32"
    THEN <<e.i % 256, (e.i \div 256) % 256, (e.i \div 65536) % 256,
           (e.i \div 16777216) % 256>>
    ELSE e.f

\* ndarray.tobytes()
tobytes(dt, elems) == Flatten([k \in 1..Len(elems) |-> ElemBytes(dt, elems[k])])

\* One element read back from `size` bytes; code "i" (C int) and int32 are 4
\* bytes, code "d" and the float dtypes are 8.
DecodeInt(b) ==
    b[1] + 256 * b[2] + 65536 * b[3]
         + 16777216 * (IF b[4] >= 128 THEN b[4] - 256 ELSE b[4])
DecodeElem(isInt, b) == IF isInt THEN [i |-> DecodeInt(b)] ELSE [f |-> b]

\* The elements of a buffer whose length is a multiple of the item size.
Decode(isInt, bytes) ==
    LET w == IF isInt THEN 4 ELSE 8
    IN  [k \in 1..(Len(bytes) \div w) |->
            DecodeElem(isInt, SubSeq(bytes, (k - 1) * w + 1, k * w))]

\* np.frombuffer(chunk.array, dtype): an error when the buffer is not a whole
\* number of items.
frombuffer(dt, bytes) ==
    IF Len(bytes) % itemsize(dt) # 0
    THEN [err |-> "ValueError", elems |-> <<>>]
    ELSE [err |-> "", elems |-> Decode(dt = "int32", bytes)]

\* array.array(typecode, chunk.array) with the typecode of lines 392-395:
\* 'd' when dtype == np.float, 'i' for everything else.
\* (a slip: every chunk read as doubles)
typecode_d(dt) == "d"
typecode(dt) == IF dt = "float" THEN "d" ELSE "i"
array_array(dt, bytes) ==
    LET isInt == typecode(dt) = "i"
        w == IF isInt THEN 4 ELSE 8
    IN  IF Len(bytes) % w # 0
        THEN [err |-> "ValueError", elems |-> <<>>]
        ELSE [err |-> "", elems |-> Decode(isInt, bytes)]

\* ------------------------------------------------------- metadata values
\* Metadata values are strings; a string is a sequence of characters.
Digits == <<"0", "1", "2", "3", "4", "5", "6", "7", "8", "9">>
DigitVal(c) == CHOOSE d \in 0..9 : Digits[d + 1] = c
IsDigit(c) == \E d \in 0..9 : Digits[d + 1] = c

\* str(n) for n >= 0
RECURSIVE Str(_)
Str(n) == IF n < 10 THEN <<Digits[n + 1]>> ELSE Str(n \div 10) \o <<Digits[(n % 10) + 1]>>

RECURSIVE DigitsVal(_)
DigitsVal(s) == IF s = <<>> THEN 0 ELSE 10 * DigitsVal(SubSeq(s, 1, Len(s) - 1)) + DigitVal(s[Len(s)])

\* int(value): an optional sign and at least one digit, else ValueError
\* (surrounding blanks and digit-grouping underscores, which int() also
\* accepts, are not among the values the stream carries here).
ParseInt(s) ==
    LET body == IF s # <<>> /\ s[1] \in {"-", "+"} THEN Tail(s) ELSE s
    IN  IF body = <<>> \/ \E k \in 1..Len(body) : ~IsDigit(body[k])
        THEN [err |-> "ValueError", val |-> 0]
        ELSE [err |-> "", val |-> IF s[1] = "-" THEN 0 - DigitsVal(body) ELSE DigitsVal(body)]

\* ------------------------------------------------------------------ state
VARIABLES
    mode,          \* "loopback": the receiver reads what the sender emits;
                   \* "server": the receiver reads a stream the server produced;
                   \* "deep_copy", "field_from_array", "get_ids", "set_data",
                   \* "entity_data": one call of that method; "concurrent":
                   \* two threads assign ids to one scoping
    \* the sender, _data_chunk_yielder(request, data, chunk_size)
    request,       \* the request object: [scoping, array]
    data,          \* [dtype, elems]
    chunk_size,
    sent_length,
    unitary_size,
    s_pc,          \* "new", "yield_empty" (line 337), "yield_chunk" (line 348),
                   \* "done"; "idle" when nothing is sent
    out,           \* the messages handed to the transport, as it saw them (the
                   \* first MaxMsgs of them)
    s_err,         \* the exception that ended the send
    s_progress,    \* the counts the sender's bar.update was given and took
    \* the stream the receiver reads
    metadata,      \* service.initial_metadata(): a sequence of [key, value]
    incoming,      \* chunks delivered and not yet consumed (payload bytes)
    closed,        \* the stream has ended
    t_err,         \* the error the transport has raised ("" for none)
    bar_raises,    \* every call of the progress bar raises
    \* the receiver, _data_get_chunk_(dtype, service, np_array) or Field._get_data
    receiver,      \* "_data_get_chunk_" | "_get_data"
    datatype,      \* Field: self._message.datatype
    ncomp,         \* Field: component_count, as the server reports it
    count,         \* Field: elementary_data_count, as the server reports it
    float_or_double, \* Field: the request metadata sent with List
    dtype,
    np_array,
    size,
    arr,
    written,       \* the indices of arr (np.empty) that have been assigned
    i,
    consumed,      \* chunks taken from the stream (counted up to MaxMsgs)
    taken,         \* the payloads of the chunks taken from the stream, in the
                   \* order taken (the first MaxMsgs of them)
    got,           \* payload bytes taken from the stream
    r_pc,          \* "new", "loop", "returned", "raised"
    r_err,         \* the exception raised
    r_progress,    \* the counts the receiver's bar.update was given and took
    result,        \* the value returned
    \* Scoping.deep_copy and field_from_array
    meets_version, \* server_meet_version("2.1", server)
    api_pc,        \* where the call stands; "idle" when there is none
    api_err,       \* the exception the call raised
    orig,          \* deep_copy: the scoping copied, as its server holds it
    scop,          \* deep_copy: the new scoping, as its server holds it
    arr_in,        \* field_from_array: the array passed in
    field,         \* field_from_array: the new field, as the server holds it
    \* two threads that set the ids of one scoping at the same time
    xfer,          \* per thread: its generator [pc, elems, sent_length, unitary_size]
    wire,          \* the messages the scoping's server was sent, in the order they
                   \* were emitted, each with the thread that emitted it
    \* Field._set_data and Field.get_entity_data_by_id
    calls,         \* the UpdateData and GetElementaryData requests sent
    ent_id         \* get_entity_data_by_id: the id asked for

senderVars == <<request, data, chunk_size, sent_length, unitary_size, s_pc, out,
                s_err, s_progress>>
streamVars == <<metadata, incoming, closed, t_err, bar_raises>>
fieldVars == <<receiver, datatype, ncomp, count>>
recvVars == <<float_or_double, dtype, np_array, size, arr, written, i, consumed, taken,
              got, r_pc, r_err, r_progress, result>>
apiVars == <<meets_version, api_pc, api_err, orig, scop, arr_in, field>>
concVars == <<xfer, wire>>
callVars == <<calls, ent_id>>
vars == <<mode, senderVars, streamVars, fieldVars, recvVars, apiVars, concVars, callVars>>

\* --------------------------------------------------------------- the inputs
Budgets == 1..MaxBudget

\* The request Scoping._set_ids builds (lines 132-133): a new UpdateIdsRequest,
\* whose array field is empty, with the scoping's handle copied in.
NewRequest == [scoping |-> "scoping_1", array |-> <<>>]
\* A request object that an earlier send of <<258>> has already been through.
UsedRequest == [scoping |-> "scoping_1", array |-> <<2, 1, 0, 0>>]

MetaEntry(k, v) == [key |-> k, value |-> v]
SizeTot(n) == MetaEntry("size_tot", Str(n))
OtherEntry == MetaEntry("content-type", <<"g", "r", "p", "c">>)

\* What a server may announce: nothing, only other entries, a size_tot that is
\* no integer, a negative one, and every whole number of items up to MaxLen.
ServerMetadata(dt) ==
    {<<>>, <<OtherEntry>>,
     <<MetaEntry("size_tot", <<"8", ".", "5">>)>>,
     <<MetaEntry("size_tot", <<"-">> \o Str(itemsize(dt)))>>,
     <<SizeTot(itemsize(dt)), MetaEntry("size_tot", <<"4", "x">>)>>}
    \cup {<<OtherEntry, SizeTot(n * itemsize(dt))>> : n \in 0..MaxLen}

\* The k-th element the server holds (all different).
SrvElem(dt, k) == IF dt = "int32" THEN [i |-> 257 * k] ELSE [f |-> <<k, 0, 0, 0, 0, 0, 240, 63>>]

RECURSIVE SumSeq(_)
SumSeq(s) == IF s = <<>> THEN 0 ELSE Head(s) + SumSeq(Tail(s))

\* The server's elements 1, 2, ... cut into chunks of the lengths `lens`.
ServerStream(dt, lens) ==
    [c \in 1..Len(lens) |->
        LET off == SumSeq(SubSeq(lens, 1, c - 1))
        IN  tobytes(dt, [k \in 1..lens[c] |-> SrvElem(dt, off + k)])]
ChunkLens == UNION {[1..c -> 0..MaxChunkLen] : c \in 0..MaxChunks}

\* The dtype argument that reads back an array of dtype dt: np.int32 as
\* Scoping._get_ids passes it, np.float as Field._get_data names the doubles.
RecvDType(dt) == IF dt = "int32" THEN "int32" ELSE "float"

ReceiverFresh ==
    /\ size = 0 /\ arr = <<>> /\ written = {} /\ i = 0 /\ consumed = 0 /\ got = 0
    /\ taken = <<>>
    /\ r_err = "" /\ result = <<>>
    /\ float_or_double = "" /\ r_progress = <<>>
ReceiverIdle == ReceiverFresh /\ r_pc = "new"

\* What a server holds for a scoping and for a field (nothing created yet).
NoScoping == [created |-> FALSE, ids |-> <<>>, location |-> ""]
NoField == [created |-> FALSE, nentities |-> 0, nature |-> "", data |-> <<>>,
            ids |-> <<>>]
NoArray == [numeric |-> TRUE, shape |-> <<0>>]

\* The threads that call Scoping._set_ids on the same scoping.
Threads == {1, 2}
NoTransfer == [pc |-> "idle", elems |-> <<>>, sent_length |-> 0, unitary_size |-> 0]

\* Neither deep_copy nor field_from_array is called, and no two threads work on
\* one scoping.
ApiIdle ==
    /\ meets_version = TRUE /\ api_pc = "idle" /\ api_err = ""
    /\ orig = NoScoping /\ scop = NoScoping /\ arr_in = NoArray /\ field = NoField
    /\ xfer = [t \in Threads |-> NoTransfer] /\ wire = <<>>
    /\ calls = <<>> /\ ent_id = 0

\* A send of `data` through request object `req`, read back by _data_get_chunk_.
InitLoopback(req, raising) ==
    /\ mode = "loopback"
    /\ request = req
    /\ bar_raises \in raising /\ t_err = ""
    /\ s_err = "" /\ s_progress = <<>>
    /\ \E dt \in ArrayDTypes :
          /\ \E a \in Arrays(dt) :
                /\ data = [dtype |-> dt, elems |-> a]
                /\ metadata = <<SizeTot(Len(tobytes(dt, a)))>>
          /\ dtype = RecvDType(dt)
    /\ chunk_size \in Budgets
    /\ sent_length = 0 /\ unitary_size = 0 /\ s_pc = "new" /\ out = <<>>
    /\ incoming = <<>> /\ closed = FALSE
    /\ receiver = "_data_get_chunk_" /\ datatype = "" /\ ncomp = 1 /\ count = 0
    /\ np_array \in BOOLEAN
    /\ ReceiverIdle
    /\ ApiIdle

SenderIdle ==
    /\ request = NewRequest /\ data = [dtype |-> "int32", elems |-> <<>>]
    /\ chunk_size = 1 /\ sent_length = 0 /\ unitary_size = 0 /\ s_pc = "idle"
    /\ out = <<>> /\ s_err = "" /\ s_progress = <<>>

\* A stream of the server's, read by _data_get_chunk_ or by Field._get_data.
InitServer(raising) ==
    /\ mode = "server"
    /\ SenderIdle
    /\ closed = TRUE
    /\ bar_raises \in raising /\ t_err = ""
    /\ ReceiverIdle
    /\ ApiIdle
    /\ \/ /\ receiver = "_data_get_chunk_"
          /\ dtype \in DTypes
          /\ np_array \in BOOLEAN
          /\ datatype = "" /\ ncomp = 1 /\ count = 0
          /\ metadata \in ServerMetadata(dtype)
          /\ \E lens \in ChunkLens : incoming = ServerStream(dtype, lens)
       \/ /\ receiver = "_get_data"
          /\ datatype \in {"int", "double"}
          /\ dtype = ""
          /\ np_array = TRUE
          /\ ncomp \in {1, 2}
          /\ count \in 0..MaxLen
          /\ LET dt == IF datatype = "int" THEN "int32" ELSE "float"
             IN  /\ metadata \in ServerMetadata(dt)
                 /\ \E lens \in ChunkLens : incoming = ServerStream(dt, lens)

\* The scopings a server holds: their ids and their location.
Locations == {"Nodal", "Elemental"}

\* A call of Scoping.deep_copy on a scoping its server holds.
InitDeepCopy(raising) ==
    /\ mode = "deep_copy"
    /\ SenderIdle
    /\ bar_raises \in raising /\ t_err = ""
    /\ meets_version \in BOOLEAN
    /\ api_pc = "deep_copy" /\ api_err = ""
    /\ \E ids \in Arrays("int32"), loc \in Locations :
          orig = [created |-> TRUE, ids |-> ids, location |-> loc]
    /\ scop = NoScoping /\ arr_in = NoArray /\ field = NoField
    /\ xfer = [t \in Threads |-> NoTransfer] /\ wire = <<>>
    /\ calls = <<>> /\ ent_id = 0
    /\ receiver = "_data_get_chunk_" /\ datatype = "" /\ ncomp = 1 /\ count = 0
    /\ dtype = "int32" /\ np_array = FALSE
    /\ ReceiverFresh /\ r_pc = "idle"
    /\ metadata = <<>> /\ incoming = <<>> /\ closed = TRUE

\* The shapes of the arrays field_from_array is handed: no dimension, one, two
\* (up to MaxCols columns) and three.
Shapes ==
    {<<>>} \cup {<<n>> : n \in 0..MaxLen}
           \cup {<<n, c>> : n \in 0..MaxLen, c \in 1..MaxCols}
           \cup {<<n, 3, 1>> : n \in 0..MaxLen}

\* A call of field_from_array(arr).
InitFieldFromArray(raising) ==
    /\ mode = "field_from_array"
    /\ SenderIdle
    /\ bar_raises \in raising /\ t_err = ""
    /\ meets_version \in BOOLEAN
    /\ api_pc = "field_from_array" /\ api_err = ""
    /\ arr_in \in [numeric : BOOLEAN, shape : Shapes]
    /\ orig = NoScoping /\ scop = NoScoping /\ field = NoField
    /\ xfer = [t \in Threads |-> NoTransfer] /\ wire = <<>>
    /\ calls = <<>> /\ ent_id = 0
    /\ receiver = "_data_get_chunk_" /\ datatype = "" /\ ncomp = 1 /\ count = 0
    /\ dtype = "int32" /\ np_array = FALSE
    /\ ReceiverFresh /\ r_pc = "idle"
    /\ metadata = <<>> /\ incoming = <<>> /\ closed = TRUE

\* A call on an object a server holds, nothing sent or received yet.
ApiCall(m, raising) ==
    /\ mode = m
    /\ SenderIdle
    /\ bar_raises \in raising /\ t_err = "" /\ api_err = ""
    /\ xfer = [t \in Threads |-> NoTransfer] /\ wire = <<>>
    /\ calls = <<>>
    /\ ReceiverFresh /\ r_pc = "idle"
    /\ metadata = <<>> /\ incoming = <<>> /\ closed = TRUE

\* A call of Scoping._get_ids(np_array) on a scoping its server holds.
InitGetIds(raising) ==
    /\ ApiCall("get_ids", raising)
    /\ meets_version \in BOOLEAN
    /\ api_pc = "get_ids"
    /\ \E ids \in Arrays("int32") :
          orig = [created |-> TRUE, ids |-> ids, location |-> "Nodal"]
    /\ scop = NoScoping /\ arr_in = NoArray /\ field = NoField /\ ent_id = 0
    /\ receiver = "_data_get_chunk_" /\ datatype = "" /\ ncomp = 1 /\ count = 0
    /\ dtype = "int32" /\ np_array \in BOOLEAN

\* The natures of the fields a server holds, and the component_count it
\* reports for them.
Natures == {"scalar", "vector", "symmatrix"}
NumComponents(nature) ==
    IF nature = "vector" THEN 3 ELSE IF nature = "symmatrix" THEN 6 ELSE 1

\* A call of Field._set_data(data) with a numpy array, on a field of `count`
\* entities its server holds.
InitSetData(raising) ==
    /\ ApiCall("set_data", raising)
    /\ meets_version = TRUE
    /\ api_pc = "set_data"
    /\ arr_in \in [numeric : {TRUE}, shape : Shapes]
    /\ count \in 0..MaxLen
    /\ \E nat \in Natures :
          /\ ncomp = NumComponents(nat)
          /\ field = [created |-> TRUE, nentities |-> count, nature |-> nat,
                      data |-> <<>>, ids |-> <<>>]
    /\ orig = NoScoping /\ scop = NoScoping /\ ent_id = 0
    /\ receiver = "_data_get_chunk_" /\ datatype = ""
    /\ dtype = "int32" /\ np_array = FALSE

\* The ids get_entity_data_by_id is asked for: two that scopings hold and one
\* that none holds.
EntityIds == {-1, 258, 7}

\* A call of Field.get_entity_data_by_id(id) on a field its server holds, with
\* its scoping and its data.
InitEntityData(raising) ==
    /\ ApiCall("entity_data", raising)
    /\ meets_version = TRUE
    /\ api_pc = "get_entity_data_by_id"
    /\ ent_id \in EntityIds
    /\ \E ids \in Arrays("int32"), nat \in {"scalar", "vector"} :
          /\ count = Len(ids)
          /\ ncomp = NumComponents(nat)
          /\ field = [created |-> TRUE, nentities |-> Len(ids), nature |-> nat,
                      data |-> [k \in 1..(Len(ids) * NumComponents(nat)) |-> 10 + k],
                      ids |-> ids]
    /\ orig = NoScoping /\ scop = NoScoping /\ arr_in = NoArray
    /\ receiver = "_data_get_chunk_" /\ datatype = ""
    /\ dtype = "int32" /\ np_array = FALSE

InitApi(raising) ==
    \/ InitDeepCopy(raising)
    \/ InitFieldFromArray(raising)
    \/ InitGetIds(raising)
    \/ InitSetData(raising)
    \/ InitEntityData(raising)

\* The progress bar works and the transport raises nothing.
Init == InitLoopback(NewRequest, {FALSE}) \/ InitServer({FALSE}) \/ InitApi({FALSE})

\* The same, with the sender also handed a request object used before.
InitAnyRequest ==
    \/ \E req \in {NewRequest, UsedRequest} : InitLoopback(req, {FALSE})
    \/ InitServer({FALSE})
    \/ InitApi({FALSE})

\* The same as Init, with a progress bar that may raise on every call.
InitFaulty ==
    InitLoopback(NewRequest, BOOLEAN) \/ InitServer(BOOLEAN) \/ InitApi(BOOLEAN)

\* ------------------------------------------------------ _data_chunk_yielder
\* data.take(range(start, start + n))
\* (a slip: every chunk taken from the array's start)
take_from_start(elems, start, n) == SubSeq(elems, 1, n)
take(elems, start, n) == SubSeq(elems, start + 1, start + n)

\* lines 339-341: the number of elements of the first chunk
InitialUnitarySize(cs, dt, length) ==
    LET u == cs \div getsizeof(dt)
    IN  IF length < u THEN length ELSE u

\* lines 346-347: the next chunk is no longer than what is left
ClampUnitarySize(u, length, sent) ==
    IF length - sent < u THEN length - sent ELSE u

\* lines 339-347 without the data: the lengths of the chunks the loop emits
\* from `sent` on with chunk length u (the first `fuel` of them).
RECURSIVE ChunkLengthsFrom(_, _, _, _)
ChunkLengthsFrom(length, sent, u, fuel) ==
    IF sent >= length \/ fuel = 0 THEN <<>>
    ELSE <<u>> \o ChunkLengthsFrom(length, sent + u,
                                   ClampUnitarySize(u, length, sent + u), fuel - 1)
ChunkLengths(length, dt, cs) ==
    IF length = 0 THEN <<>>
    ELSE ChunkLengthsFrom(length, 0, InitialUnitarySize(cs, dt, length), 2 * MaxMsgs)

\* `yield request`: the transport gets the request object as it is now; in a
\* loopback its payload is what the receiver's stream yields next (FIFO).
\* (a slip: only the payload handed on, the handle left out)
Yield_payload_only(req) ==
    /\ out' = IF Len(out) < MaxMsgs
              THEN Append(out, [scoping |-> "", array |-> req.array]) ELSE out
    /\ incoming' = IF mode = "loopback" THEN Append(incoming, req.array) ELSE incoming
Yield(req) ==
    /\ out' = IF Len(out) < MaxMsgs THEN Append(out, req) ELSE out
    /\ incoming' = IF mode = "loopback" THEN Append(incoming, req.array) ELSE incoming

\* The array after lines 343-344: data.take(...) builds a new array and
\* tobytes() a new bytes object, the array they are called on is left as it was.
\* (a slip: the elements taken are removed from the array)
after_take_removed(d, start, n) ==
    [d EXCEPT !.elems = SubSeq(d.elems, 1, start) \o
                        SubSeq(d.elems, start + n + 1, Len(d.elems))]
after_take(d, start, n) == d

\* lines 343-348: one pass of the loop body with chunk length u, to its yield
LoopBody(u) ==
    LET length == Len(data.elems)
        currentcopy == take(data.elems, sent_length, u)
        req == [request EXCEPT !.array = tobytes(data.dtype, currentcopy)]
    IN  /\ request' = req
        /\ sent_length' = sent_length + u
        /\ unitary_size' = ClampUnitarySize(u, length, sent_length + u)
        /\ data' = after_take(data, sent_length, u)
        /\ Yield(req)

\* Line 348 yields `request` itself, the one object of lines 132-133, never a
\* copy of it: whoever reads the k-th message handed over reads that object as
\* it is at the time of reading.
MessageRead(k) == request

\* need_progress_bar: `length > 1e6` elements in the sender (line 331),
\* `size > 1e6` bytes in the receiver (line 370).
NeedBarSend == Len(data.elems) > BarThreshold
NeedBarRecv(sz) == sz > BarThreshold

\* try: bar.update(c) / except: pass.  The bar takes the count unless the call
\* raises; the log keeps the first MaxMsgs - 1 counts and the last one.
Update(log, c) ==
    IF bar_raises THEN log
    ELSE IF Len(log) < MaxMsgs THEN Append(log, c)
    ELSE [log EXCEPT ![MaxMsgs] = c]

\* The generator ends (lines 354-358, bar.finish() inside try/except): the
\* transport closes the stream.
SendStop ==
    /\ s_pc' = "done"
    /\ closed' = (mode = "loopback" \/ closed)
    /\ UNCHANGED <<request, data, sent_length, unitary_size, out, incoming>>

\* The first next(): lines 330-338 for an empty array, else lines 330-348.
\* Lines 333-334 create and start the bar outside any try: what they raise
\* leaves the generator.
SendStart ==
    /\ s_pc = "new"
    /\ IF NeedBarSend /\ bar_raises
       THEN /\ s_pc' = "raised"
            /\ s_err' = "ReporterError"
            /\ UNCHANGED <<request, data, sent_length, unitary_size, out, incoming>>
       ELSE IF Len(data.elems) = 0
       THEN /\ Yield(request)
            /\ s_pc' = "yield_empty"
            /\ UNCHANGED <<request, data, sent_length, unitary_size, s_err>>
       ELSE /\ LoopBody(InitialUnitarySize(chunk_size, data.dtype, Len(data.elems)))
            /\ s_pc' = "yield_chunk"
            /\ UNCHANGED s_err
    /\ UNCHANGED <<mode, concVars, callVars, apiVars, chunk_size, s_progress, metadata, closed, t_err,
                   bar_raises, fieldVars, recvVars>>

\* A later next(): from a yield to the next yield, or to the generator's end.
\* After the yield of line 348 comes bar.update(sent_length), lines 349-353.
SendNext ==
    /\ s_pc \in {"yield_empty", "yield_chunk"}
    /\ Len(incoming) < MaxQueue
    /\ s_progress' = IF s_pc = "yield_chunk" /\ NeedBarSend
                     THEN Update(s_progress, sent_length) ELSE s_progress
    /\ IF s_pc = "yield_chunk" /\ sent_length < Len(data.elems)
       THEN /\ LoopBody(unitary_size)
            /\ UNCHANGED <<s_pc, closed>>
       ELSE SendStop
    /\ UNCHANGED <<mode, concVars, callVars, apiVars, chunk_size, s_err, metadata, t_err, bar_raises,
                   fieldVars, recvVars>>

\* The transport fails while a chunk is written: it stops taking messages from
\* the generator and the call stub.UpdateIds(...) of lines 135, 137, which no
\* try encloses, raises the transport's error in the caller.
OnWriteError(e) ==
    /\ s_pc' = "raised"
    /\ s_err' = e
    /\ UNCHANGED <<request, sent_length, unitary_size, out, s_progress>>

SendTransportError ==
    /\ s_pc \in {"yield_empty", "yield_chunk"}
    /\ t_err = ""
    /\ t_err' = "RpcError"
    /\ OnWriteError("RpcError")
    /\ UNCHANGED <<mode, concVars, callVars, apiVars, data, chunk_size, metadata, incoming, closed, bar_raises,
                   fieldVars, recvVars>>

\* ------------------------------------------------------------ the receivers
\* The loop over the initial metadata (scoping.py 367-369, field.py 312-314):
\* every size_tot entry is parsed, the last one wins, a value that is no
\* integer raises at once.  bound: whether `size` was ever assigned.
RECURSIVE ScanMetadata(_, _)
ScanMetadata(meta, acc) ==
    IF meta = <<>> THEN acc
    ELSE IF Head(meta).key = "size_tot"
         THEN LET p == ParseInt(Head(meta).value)
              IN  IF p.err # ""
                  THEN [bound |-> acc.bound, val |-> acc.val, err |-> p.err]
                  ELSE ScanMetadata(Tail(meta), [bound |-> TRUE, val |-> p.val, err |-> ""])
         ELSE ScanMetadata(Tail(meta), acc)
\* (a slip: `size = 0` before the loop)
ReadSizeTot_default(meta) == ScanMetadata(meta, [bound |-> TRUE, val |-> 0, err |-> ""])
ReadSizeTot(meta) == ScanMetadata(meta, [bound |-> FALSE, val |-> 0, err |-> ""])

\* What np.empty leaves in a slot until it is assigned; never returned as such
\* (see Uninitialised).
Placeholder(dt) == IF dt = "int32" THEN [i |-> 0] ELSE [f |-> F1]
\* (a slip: nothing allocated ahead of the chunks)
empty_nothing(n, dt) == <<>>
\* (a slip: one slot too many)
empty_one_more(n, dt) == [k \in 1..(n + 1) |-> Placeholder(dt)]
empty(n, dt) == [k \in 1..n |-> Placeholder(dt)]

\* arr[pos:pos + len(src)] = src.  The slice is cut at the array's end; numpy
\* copies when the lengths agree, broadcasts a single element over the slice
\* (also over an empty one), and raises ValueError otherwise.
SliceAssign(a, w, pos, src) ==
    LET n == Len(a)
        k == Len(src)
        lo == IF pos < n THEN pos ELSE n
        hi == IF pos + k < n THEN pos + k ELSE n
        m == hi - lo
    IN  IF k = m \/ k = 1
        THEN [err |-> "",
              arr |-> [x \in 1..n |->
                          IF lo < x /\ x <= hi
                          THEN (IF k = m THEN src[x - lo] ELSE src[1])
                          ELSE a[x]],
              written |-> w \cup (lo + 1..hi)]
        ELSE [err |-> "ValueError", arr |-> a, written |-> w]

\* The arrays the caller may see for `a`: a slot np.empty allocated and no chunk
\* assigned holds whatever the memory held.
Uninitialised(a, w) == {k \in 1..Len(a) : k \notin w}
Returned(a, w, dt) ==
    {[k \in 1..Len(a) |-> IF k \in w THEN a[k] ELSE fill[k]] :
        fill \in [Uninitialised(a, w) -> Vals(dt)]}

\* The preallocating mode of _data_get_chunk_ as a function of the stream,
\* lines 378-383: np.empty(size // itemsize, dtype), then chunk after chunk
\* written at the cursor; the state the loop is left in, or the exception.
RECURSIVE ArrayModeLoop(_, _, _)
ArrayModeLoop(dt, st, chunks) ==
    IF chunks = <<>> \/ st.err # "" THEN st
    ELSE LET fb == frombuffer(dt, Head(chunks))
             sa == SliceAssign(st.arr, st.written, st.i, fb.elems)
         IN  IF fb.err # "" THEN [st EXCEPT !.err = fb.err]
             ELSE IF sa.err # "" THEN [st EXCEPT !.err = sa.err]
             ELSE ArrayModeLoop(dt,
                      [err |-> "", arr |-> sa.arr, written |-> sa.written,
                       i |-> st.i + Len(Head(chunks)) \div itemsize(dt)],
                      Tail(chunks))
ArrayMode(dt, sz, chunks) ==
    ArrayModeLoop(dt, [err |-> "", arr |-> empty(sz \div itemsize(dt), dt),
                       written |-> {}, i |-> 0], chunks)

\* The list mode of _data_get_chunk_ as a function of the stream, lines
\* 391-397: every chunk read by array.array and appended.
RECURSIVE ListModeLoop(_, _, _)
ListModeLoop(dt, st, chunks) ==
    IF chunks = <<>> \/ st.err # "" THEN st
    ELSE LET aa == array_array(dt, Head(chunks))
         IN  IF aa.err # "" THEN [st EXCEPT !.err = aa.err]
             ELSE ListModeLoop(dt, [err |-> "", arr |-> st.arr \o aa.elems], Tail(chunks))
ListMode(dt, chunks) == ListModeLoop(dt, [err |-> "", arr |-> <<>>], chunks)

\* An exception leaves the call: nothing is returned.
Raise(e) ==
    /\ r_pc' = "raised"
    /\ r_err' = e
    /\ UNCHANGED <<size, arr, written, i, r_progress, result>>

\* `for chunk in service` (scoping.py 380, 396; field.py 320) stands in no try:
\* what the transport raises while a chunk is read leaves the call.
\* (a slip: the error taken for the end of the stream)
OnReadError_swallowed(e) ==
    /\ r_pc' = "returned"
    /\ result' = arr
    /\ UNCHANGED <<size, arr, written, i, r_err, r_progress>>
OnReadError(e) == Raise(e)

\* _data_get_chunk_, lines 364-378 and 391-395: read size_tot, allocate.
GetChunkStart ==
    /\ receiver = "_data_get_chunk_"
    /\ r_pc = "new"
    /\ LET s == ReadSizeTot(metadata)
           n == s.val \div itemsize(dtype)
       IN  IF s.err # "" THEN Raise(s.err)
           ELSE IF ~s.bound THEN Raise("UnboundLocalError")
           ELSE IF NeedBarRecv(s.val) /\ bar_raises THEN Raise("ReporterError")
           ELSE IF np_array /\ n < 0 THEN Raise("ValueError")
           ELSE /\ size' = s.val
                /\ arr' = IF np_array THEN empty(n, dtype) ELSE <<>>
                /\ written' = {}
                /\ i' = 0
                /\ r_pc' = "loop"
                /\ UNCHANGED <<r_err, r_progress, result>>
    /\ UNCHANGED <<mode, concVars, callVars, apiVars, senderVars, streamVars, fieldVars, float_or_double, dtype,
                   np_array, consumed, taken, got>>

\* _data_get_chunk_, one pass of `for chunk in service`: lines 380-383
\* (np_array) or 396-397 (list).
GetChunkStep ==
    /\ receiver = "_data_get_chunk_"
    /\ r_pc = "loop"
    /\ incoming # <<>>
    /\ incoming' = Tail(incoming)
    /\ consumed' = (IF consumed < MaxMsgs THEN consumed + 1 ELSE consumed)
    /\ taken' = (IF Len(taken) < MaxMsgs THEN Append(taken, Head(incoming)) ELSE taken)
    /\ got' = got + Len(Head(incoming))
    /\ LET chunk == Head(incoming)
       IN  IF np_array
           THEN LET curr_size == Len(chunk) \div itemsize(dtype)
                    fb == frombuffer(dtype, chunk)
                    sa == SliceAssign(arr, written, i, fb.elems)
                IN  IF fb.err # "" THEN Raise(fb.err)
                    ELSE IF sa.err # "" THEN Raise(sa.err)
                    ELSE /\ arr' = sa.arr
                         /\ written' = sa.written
                         /\ i' = i + curr_size
                         /\ r_progress' = IF NeedBarRecv(size)
                                          THEN Update(r_progress, i + curr_size)
                                          ELSE r_progress
                         /\ UNCHANGED <<size, r_pc, r_err, result>>
           ELSE LET aa == array_array(dtype, chunk)
                IN  IF aa.err # "" THEN Raise(aa.err)
                    ELSE /\ arr' = arr \o aa.elems
                         /\ r_progress' = IF NeedBarRecv(size)
                                          THEN Update(r_progress, Len(arr \o aa.elems))
                                          ELSE r_progress
                         /\ UNCHANGED <<size, written, i, r_pc, r_err, result>>
    /\ UNCHANGED <<mode, concVars, callVars, apiVars, senderVars, metadata, closed, t_err, bar_raises, fieldVars,
                   float_or_double, dtype, np_array>>

\* _data_get_chunk_: the transport fails while a chunk is read.
GetChunkTransportError ==
    /\ receiver = "_data_get_chunk_"
    /\ r_pc = "loop"
    /\ t_err = ""
    /\ t_err' = "RpcError"
    /\ OnReadError("RpcError")
    /\ UNCHANGED <<mode, concVars, callVars, apiVars, senderVars, metadata, incoming, closed, bar_raises, fieldVars,
                   float_or_double, dtype, np_array, consumed, taken, got>>

\* _data_get_chunk_, the stream has ended: lines 403-408 (bar.finish() inside
\* try/except, then return).
GetChunkReturn ==
    /\ receiver = "_data_get_chunk_"
    /\ r_pc = "loop"
    /\ incoming = <<>>
    /\ closed
    /\ result' \in (IF np_array THEN Returned(arr, written, dtype) ELSE {arr})
    /\ r_pc' = "returned"
    /\ UNCHANGED <<mode, concVars, callVars, apiVars, senderVars, streamVars, fieldVars, float_or_double, dtype,
                   np_array, size, arr, written, i, consumed, taken, got, r_err, r_progress>>

\* Field._get_data, lines 304-309: the element kind, from the field's datatype.
\* (a slip: every field read as doubles)
FieldElementKind_double(dtp) == [data_type |-> "double", dtype |-> "float"]
FieldElementKind(dtp) ==
    IF dtp = "int" THEN [data_type |-> "int", dtype |-> "int32"]
    ELSE [data_type |-> "double", dtype |-> "float"]

\* Field._get_data, lines 302-319: pick the element kind, call List, read
\* size_tot, allocate.
FieldGetDataStart ==
    /\ receiver = "_get_data"
    /\ r_pc = "new"
    /\ float_or_double' = FieldElementKind(datatype).data_type
    /\ dtype' = FieldElementKind(datatype).dtype
    /\ LET s == ReadSizeTot(metadata)
           n == s.val \div itemsize(dtype')
       IN  IF s.err # "" THEN Raise(s.err)
           ELSE IF ~s.bound THEN Raise("UnboundLocalError")
           ELSE IF n < 0 THEN Raise("ValueError")
           ELSE /\ size' = s.val
                /\ arr' = empty(n, dtype')
                /\ written' = {}
                /\ i' = 0
                /\ r_pc' = "loop"
                /\ UNCHANGED <<r_err, r_progress, result>>
    /\ UNCHANGED <<mode, concVars, callVars, apiVars, senderVars, streamVars, fieldVars, np_array, consumed, taken, got>>

\* Field._get_data, one pass of `for chunk in service`: lines 320-323.
FieldGetDataStep ==
    /\ receiver = "_get_data"
    /\ r_pc = "loop"
    /\ incoming # <<>>
    /\ incoming' = Tail(incoming)
    /\ consumed' = (IF consumed < MaxMsgs THEN consumed + 1 ELSE consumed)
    /\ taken' = (IF Len(taken) < MaxMsgs THEN Append(taken, Head(incoming)) ELSE taken)
    /\ got' = got + Len(Head(incoming))
    /\ LET chunk == Head(incoming)
           curr_size == Len(chunk) \div itemsize(dtype)
           fb == frombuffer(dtype, chunk)
           sa == SliceAssign(arr, written, i, fb.elems)
       IN  IF fb.err # "" THEN Raise(fb.err)
           ELSE IF sa.err # "" THEN Raise(sa.err)
           ELSE /\ arr' = sa.arr
                /\ written' = sa.written
                /\ i' = i + curr_size
                /\ UNCHANGED <<size, r_pc, r_err, r_progress, result>>
    /\ UNCHANGED <<mode, concVars, callVars, apiVars, senderVars, metadata, closed, t_err, bar_raises, fieldVars,
                   float_or_double, dtype, np_array>>

\* Field._get_data: the transport fails while a chunk is read.
FieldGetDataTransportError ==
    /\ receiver = "_get_data"
    /\ r_pc = "loop"
    /\ t_err = ""
    /\ t_err' = "RpcError"
    /\ OnReadError("RpcError")
    /\ UNCHANGED <<mode, concVars, callVars, apiVars, senderVars, metadata, incoming, closed, bar_raises, fieldVars,
                   float_or_double, dtype, np_array, consumed, taken, got>>

\* arr.reshape((rows, cols)): rows of cols elements.
reshape(a, rows, cols) ==
    [r \in 1..rows |-> SubSeq(a, (r - 1) * cols + 1, r * cols)]

\* Field._get_data, the stream has ended: lines 325-328.
FieldGetDataReturn ==
    /\ receiver = "_get_data"
    /\ r_pc = "loop"
    /\ incoming = <<>>
    /\ closed
    /\ IF ncomp # 1 /\ Len(arr) # count * ncomp
       THEN Raise("ValueError")
       ELSE /\ \E a \in Returned(arr, written, dtype) :
                  result' = IF ncomp # 1 THEN reshape(a, count, ncomp) ELSE a
            /\ r_pc' = "returned"
            /\ UNCHANGED <<size, arr, written, i, r_err, r_progress>>
    /\ UNCHANGED <<mode, concVars, callVars, apiVars, senderVars, streamVars, fieldVars, float_or_double, dtype,
                   np_array, consumed, taken, got>>

\* ------------------------------------------------------- Scoping._set_ids
\* The chunk byte budgets of Scoping._set_ids: the default of
\* _data_chunk_yielder (ansys.dpf.core.misc.DEFAULT_FILE_CHUNK_SIZE, the larger
\* of the two) and the 8.0e6 of line 137.
DEFAULT_FILE_CHUNK_SIZE == 16000000
OldServerChunkSize == 8000000

\* lines 134-137
\* (a slip: the two branches exchanged)
SetIdsBudget_swapped(meets) ==
    IF meets THEN OldServerChunkSize ELSE DEFAULT_FILE_CHUNK_SIZE
SetIdsBudget(meets) ==
    IF meets THEN DEFAULT_FILE_CHUNK_SIZE ELSE OldServerChunkSize

\* The decorator of line 111, @version_requires("2.1"), defined in
\* ansys.dpf.core.check_version: the exception it raises before the method's
\* body runs ("" for none).  The version gate of the transfer sends to servers
\* below the threshold with the smaller budget, so the call goes through for
\* them too.
\* (a slip: the requirement enforced, a server below 2.1 refused)
version_requires_enforced(meets) == IF meets THEN "" ELSE "DpfVersionNotSupported"
version_requires(meets) == ""

\* np.array(ids, dtype=np.int32), lines 124-129: the ids, each a 32-bit integer.
\* (a slip: the first id left out)
ToInt32Array_tail(ids) == [k \in 1..(Len(ids) - 1) |-> [i |-> ids[k + 1].i]]
ToInt32Array(ids) == [k \in 1..Len(ids) |-> [i |-> ids[k].i]]

\* Scoping._set_ids(ids), lines 124-137: a new request and a new generator
\* over the ids, its budget chosen by the server's version.
SetIds(ids) ==
    IF version_requires(meets_version) # ""
    THEN /\ s_pc' = "raised"
         /\ s_err' = version_requires(meets_version)
         /\ UNCHANGED <<data, request, chunk_size, sent_length, unitary_size, out,
                        s_progress>>
    ELSE /\ data' = [dtype |-> "int32", elems |-> ToInt32Array(ids)]
         /\ request' = NewRequest
         /\ chunk_size' = SetIdsBudget(meets_version)
         /\ sent_length' = 0 /\ unitary_size' = 0 /\ s_pc' = "new" /\ out' = <<>>
         /\ UNCHANGED <<s_err, s_progress>>

\* The ids a server holds after an UpdateIds stream: the payloads it was sent,
\* in order, read as 32-bit integers.
ServerIds(msgs) == Decode(TRUE, Flatten([k \in 1..Len(msgs) |-> msgs[k].array]))

\* `elems` cut into consecutive chunks of the lengths `lens`.
Cut(elems, lens) ==
    [c \in 1..Len(lens) |->
        LET off == SumSeq(SubSeq(lens, 1, c - 1))
        IN  SubSeq(elems, off + 1, off + lens[c])]

\* ------------------------------------------------------ Scoping.deep_copy
\* Lines 323-324: the new scoping is created, then self.ids calls _get_ids
\* (lines 151-158): the server streams the ids, in chunks of its choosing; to a
\* client of version 2.1 as bytes after a size_tot, else as lists of ids.
DeepCopyStart ==
    /\ mode = "deep_copy"
    /\ api_pc = "deep_copy"
    /\ scop' = [created |-> TRUE, ids |-> <<>>, location |-> ""]
    /\ api_pc' = "get_ids"
    /\ \E lens \in {l \in ChunkLens : SumSeq(l) = Len(orig.ids)} :
          LET chunks == Cut(orig.ids, lens)
          IN  IF meets_version
              THEN /\ metadata' = <<OtherEntry, SizeTot(4 * Len(orig.ids))>>
                   /\ incoming' = [c \in 1..Len(chunks) |-> tobytes("int32", chunks[c])]
                   /\ r_pc' = "new"
              ELSE /\ metadata' = <<>>
                   /\ incoming' = chunks
                   /\ r_pc' = "loop_old"
    /\ UNCHANGED <<mode, concVars, callVars, senderVars, closed, t_err, bar_raises, fieldVars,
                   float_or_double, dtype, np_array, size, arr, written, i, consumed, taken,
                   got, r_err, r_progress, result, meets_version, api_err, orig,
                   arr_in, field>>

\* Scoping._get_ids(np_array), lines 151-158: List is called and the server
\* streams the ids, as DeepCopyStart has it.
GetIdsStart ==
    /\ mode = "get_ids"
    /\ api_pc = "get_ids"
    /\ api_pc' = "listing"
    /\ \E lens \in {l \in ChunkLens : SumSeq(l) = Len(orig.ids)} :
          LET chunks == Cut(orig.ids, lens)
          IN  IF meets_version
              THEN /\ metadata' = <<OtherEntry, SizeTot(4 * Len(orig.ids))>>
                   /\ incoming' = [c \in 1..Len(chunks) |-> tobytes("int32", chunks[c])]
                   /\ r_pc' = "new"
              ELSE /\ metadata' = <<>>
                   /\ incoming' = chunks
                   /\ r_pc' = "loop_old"
    /\ UNCHANGED <<mode, concVars, callVars, senderVars, closed, t_err, bar_raises, fieldVars,
                   float_or_double, dtype, np_array, size, arr, written, i, consumed, taken,
                   got, r_err, r_progress, result, meets_version, api_err, orig, scop,
                   arr_in, field>>

\* Scoping._get_ids against a server below 2.1, lines 156-164: the lists of
\* ids of the chunks, one after the other.
GetIdsOld ==
    /\ r_pc = "loop_old"
    /\ result' = IF np_array THEN ToInt32Array(Flatten(incoming)) ELSE Flatten(incoming)
    /\ incoming' = <<>>
    /\ r_pc' = "returned"
    /\ UNCHANGED <<mode, concVars, callVars, senderVars, metadata, closed, t_err, bar_raises, fieldVars,
                   float_or_double, dtype, np_array, size, arr, written, i, consumed, taken,
                   got, r_err, r_progress, apiVars>>

\* Line 324, `scop.ids = ...`: the ids read are sent to the new scoping.
DeepCopySetIds ==
    /\ mode = "deep_copy"
    /\ api_pc = "get_ids"
    /\ r_pc = "returned"
    /\ SetIds(result)
    /\ api_pc' = "set_ids"
    /\ UNCHANGED <<mode, concVars, callVars, streamVars, fieldVars, recvVars, meets_version, api_err,
                   orig, scop, arr_in, field>>

\* The UpdateIds stream has ended: the server holds the ids it was sent.  Then
\* lines 325-326: the location is read from the original and set on the copy.
DeepCopyFinish ==
    /\ mode = "deep_copy"
    /\ api_pc = "set_ids"
    /\ s_pc = "done"
    /\ scop' = [scop EXCEPT !.ids = ServerIds(out), !.location = orig.location]
    /\ api_pc' = "returned"
    /\ UNCHANGED <<mode, concVars, callVars, senderVars, streamVars, fieldVars, recvVars, meets_version,
                   api_err, orig, arr_in, field>>

\* ------------------------------------------------------- field_from_array
RECURSIVE Product(_)
Product(shape) == IF shape = <<>> THEN 1 ELSE Head(shape) * Product(Tail(shape))

\* The values of the array passed in, in row-major order (all different).
ArrayData(shape) == [k \in 1..Product(shape) |-> 10 + k]

\* common.py 93-106: the nature of the field and the array as it goes on (a
\* single column is flattened), or the shape error.
\* (a slip: what the error message says, one dimension or three components)
NatureOf_message(shape) ==
    IF Len(shape) = 1
    THEN [err |-> "", nature |-> "scalar", shape |-> shape]
    ELSE IF Len(shape) = 2 /\ shape[2] = 3
    THEN [err |-> "", nature |-> "vector", shape |-> shape]
    ELSE [err |-> "ValueError", nature |-> "", shape |-> shape]
NatureOf(shape) ==
    IF Len(shape) = 1
    THEN [err |-> "", nature |-> "scalar", shape |-> shape]
    ELSE IF Len(shape) = 2
    THEN IF shape[2] = 1
         THEN [err |-> "", nature |-> "scalar", shape |-> <<shape[1]>>]
         ELSE IF shape[2] = 3
         THEN [err |-> "", nature |-> "vector", shape |-> shape]
         ELSE IF shape[2] = 6
         THEN [err |-> "", nature |-> "symmatrix", shape |-> shape]
         ELSE [err |-> "ValueError", nature |-> "", shape |-> shape]
    ELSE [err |-> "ValueError", nature |-> "", shape |-> shape]

\* field.py 74-79: the number of components of a field of that nature.
elem_data_size(nature) ==
    IF nature = "vector" THEN 3 ELSE IF nature = "symmatrix" THEN 6 ELSE 1

\* Field._set_data, field.py 210-214: an array is refused when both its shape
\* and its size differ from the field's.  self.shape is the pair (entities,
\* components), or the bare number of entities for one component, which no
\* array shape equals.
\* (a slip: refused as soon as the shape differs)
SetDataRefuses_shape(shape, nentities, ncomponents) ==
    ncomponents = 1 \/ shape # <<nentities, ncomponents>>
SetDataRefuses(shape, nentities, ncomponents) ==
    /\ (ncomponents = 1 \/ shape # <<nentities, ncomponents>>)
    /\ Product(shape) # nentities * ncomponents

\* field.py 215-218: the one UpdateData request, the values in rep_double.
UpdateData(values) == [rpc |-> "UpdateData", rep_double |-> values]

\* common.py 86-117, up to the generator of `field.scoping.ids = ids`: the type
\* and shape checks, Field(nentities, nature) (field.py 65-81), field.data =
\* arr (field.py 204-218), ids = [1, ..., nentities].
FieldFromArrayStart ==
    /\ mode = "field_from_array"
    /\ api_pc = "field_from_array"
    /\ LET nat == NatureOf(arr_in.shape)
           nentities == nat.shape[1]
           ncomponents == elem_data_size(nat.nature)
           err == IF ~arr_in.numeric THEN "TypeError"
                  ELSE IF nat.err # "" THEN nat.err
                  ELSE IF SetDataRefuses(nat.shape, nentities, ncomponents)
                       THEN "ValueError"
                  ELSE ""
       IN  IF ~arr_in.numeric \/ nat.err # ""
           THEN /\ api_pc' = "raised"
                /\ api_err' = err
                /\ UNCHANGED <<field, senderVars, calls>>
           ELSE IF err # ""
           THEN /\ api_pc' = "raised"
                /\ api_err' = err
                /\ field' = [created |-> TRUE, nentities |-> nentities,
                             nature |-> nat.nature, data |-> <<>>, ids |-> <<>>]
                /\ UNCHANGED <<senderVars, calls>>
           ELSE /\ field' = [created |-> TRUE, nentities |-> nentities,
                             nature |-> nat.nature,
                             data |-> ArrayData(nat.shape), ids |-> <<>>]
                /\ calls' = Append(calls, UpdateData(ArrayData(nat.shape)))
                /\ SetIds([k \in 1..nentities |-> [i |-> k]])
                /\ api_pc' = "set_ids"
                /\ UNCHANGED api_err
    /\ UNCHANGED <<mode, concVars, ent_id, streamVars, fieldVars, recvVars, meets_version,
                   orig, scop, arr_in>>

\* The UpdateIds stream has ended: the server holds the ids it was sent, and
\* field_from_array returns the field (lines 117-119).
FieldFromArrayFinish ==
    /\ mode = "field_from_array"
    /\ api_pc = "set_ids"
    /\ s_pc = "done"
    /\ field' = [field EXCEPT !.ids = ServerIds(out)]
    /\ api_pc' = "returned"
    /\ UNCHANGED <<mode, concVars, callVars, senderVars, streamVars, fieldVars, recvVars, meets_version,
                   api_err, orig, scop, arr_in>>

\* --------------------------------------------------------- Field._set_data
\* field.py 204-218 for a numpy array: self.shape and self.size are asked of
\* the server (component_count, elementary_data_count); the array is refused,
\* or its values, data.reshape(data.size).tolist(), go out in one UpdateData
\* request and the server holds them.
FieldSetData ==
    /\ mode = "set_data"
    /\ api_pc = "set_data"
    /\ IF SetDataRefuses(arr_in.shape, count, ncomp)
       THEN /\ api_pc' = "raised"
            /\ api_err' = "ValueError"
            /\ UNCHANGED <<field, calls>>
       ELSE /\ calls' = Append(calls, UpdateData(ArrayData(arr_in.shape)))
            /\ field' = [field EXCEPT !.data = ArrayData(arr_in.shape)]
            /\ api_pc' = "returned"
            /\ UNCHANGED api_err
    /\ UNCHANGED <<mode, concVars, ent_id, senderVars, streamVars, fieldVars, recvVars,
                   meets_version, orig, scop, arr_in>>

\* ------------------------------------------- Field.get_entity_data_by_id
\* Scoping.index(id), scoping.py 197-212 and 224-232: the index the server
\* reports for the id, counted from 0, negative when the scoping has no such id.
ScopingIndex(ids, id) ==
    IF \E k \in 1..Len(ids) : ids[k].i = id
    THEN (CHOOSE k \in 1..Len(ids) :
             ids[k].i = id /\ \A j \in 1..(k - 1) : ids[j].i # id) - 1
    ELSE -1

\* The GetElementaryData request of field.py 228-231 and what the server
\* answers: the values of the entity at that index.
GetElementaryData(index) == [rpc |-> "GetElementaryData", index |-> index]
ElementaryData(fld, ncomponents, index) ==
    SubSeq(fld.data, index * ncomponents + 1, (index + 1) * ncomponents)

\* Field.get_entity_data(index), field.py 232-242: the values as an array, in
\* rows of component_count values when there are several components.
get_entity_data(fld, ncomponents, index) ==
    LET list == ElementaryData(fld, ncomponents, index)
    IN  IF ncomponents # 1
        THEN reshape(list, Len(list) \div ncomponents, ncomponents)
        ELSE list

\* field.py 253: the index that is refused.
\* (a slip: the first index refused too)
index_refused_zero(index) == index <= 0
index_refused(index) == index < 0

\* Field.get_entity_data_by_id(id), field.py 252-256.
GetEntityDataById ==
    /\ mode = "entity_data"
    /\ api_pc = "get_entity_data_by_id"
    /\ LET index == ScopingIndex(field.ids, ent_id)
       IN  IF index_refused(index)
           THEN /\ api_pc' = "raised"
                /\ api_err' = "ValueError"
                /\ UNCHANGED <<calls, result>>
           ELSE /\ calls' = Append(calls, GetElementaryData(index))
                /\ result' = get_entity_data(field, ncomp, index)
                /\ api_pc' = "returned"
                /\ UNCHANGED api_err
    /\ UNCHANGED <<mode, concVars, ent_id, senderVars, streamVars, fieldVars,
                   float_or_double, dtype, np_array, size, arr, written, i, consumed, taken,
                   got, r_pc, r_err, r_progress, meets_version, orig, scop, arr_in, field>>

Next ==
    \/ SendStart
    \/ SendNext
    \/ GetChunkStart
    \/ GetChunkStep
    \/ GetChunkReturn
    \/ FieldGetDataStart
    \/ FieldGetDataStep
    \/ FieldGetDataReturn
    \/ DeepCopyStart
    \/ GetIdsOld
    \/ DeepCopySetIds
    \/ DeepCopyFinish
    \/ GetIdsStart
    \/ FieldFromArrayStart
    \/ FieldFromArrayFinish
    \/ FieldSetData
    \/ GetEntityDataById

Spec == Init /\ [][Next]_vars

\* The sender may also be handed a request object that was used before.
SpecAnyRequest == InitAnyRequest /\ [][Next]_vars

\* The calls run to completion: every step that can be taken is taken.
FairSpec == Init /\ [][Next]_vars /\ WF_vars(Next)

\* ------------------------------------- two threads, one scoping, no lock
\* The budgets of the concurrent sends: Scoping._set_ids passes a budget of
\* 285,714 ids per chunk (8.0e6 // 28) or the default; brought down to one or
\* two ids per chunk for the model's arrays.
ConcBudgets == {getsizeof("int32"), 2 * getsizeof("int32")}

\* Two threads each assign ids to the same scoping: each call of
\* Scoping._set_ids (lines 124-137) builds its own array, its own request and
\* its own generator, and takes no lock.
InitConcurrent ==
    /\ mode = "concurrent"
    /\ request = NewRequest /\ data = [dtype |-> "int32", elems |-> <<>>]
    /\ chunk_size \in ConcBudgets
    /\ sent_length = 0 /\ unitary_size = 0 /\ s_pc = "idle"
    /\ out = <<>> /\ s_err = "" /\ s_progress = <<>>
    /\ bar_raises = FALSE /\ t_err = ""
    /\ metadata = <<>> /\ incoming = <<>> /\ closed = TRUE
    /\ receiver = "_data_get_chunk_" /\ datatype = "" /\ ncomp = 1 /\ count = 0
    /\ dtype = "int32" /\ np_array = FALSE
    /\ ReceiverFresh /\ r_pc = "idle"
    /\ meets_version = TRUE /\ api_pc = "idle" /\ api_err = ""
    /\ orig = NoScoping /\ scop = NoScoping /\ arr_in = NoArray /\ field = NoField
    /\ wire = <<>>
    /\ calls = <<>> /\ ent_id = 0
    /\ xfer \in [Threads -> {[pc |-> "new", elems |-> ToInt32Array(a),
                              sent_length |-> 0, unitary_size |-> 0] :
                                 a \in Arrays("int32")}]

\* `yield request` of thread t's generator: the scoping's server is sent the
\* chunk on t's own stream, whatever the other thread's generator is doing.
ConcYield(t, chunk) ==
    wire' = Append(wire, [t |-> t, array |-> tobytes("int32", chunk)])

\* lines 343-348 in thread t, with chunk length u
ConcLoopBody(t, u) ==
    LET g == xfer[t]
        length == Len(g.elems)
    IN  /\ ConcYield(t, take(g.elems, g.sent_length, u))
        /\ xfer' = [xfer EXCEPT ![t] =
                       [g EXCEPT !.pc = "yield_chunk",
                                 !.sent_length = g.sent_length + u,
                                 !.unitary_size =
                                     ClampUnitarySize(u, length, g.sent_length + u)]]

\* The first next() of thread t's generator (lines 330-348); nothing in
\* _set_ids or in the generator waits for the other thread.
ConcStart(t) ==
    /\ mode = "concurrent"
    /\ xfer[t].pc = "new"
    /\ IF Len(xfer[t].elems) = 0
       THEN /\ ConcYield(t, <<>>)
            /\ xfer' = [xfer EXCEPT ![t].pc = "yield_empty"]
       ELSE ConcLoopBody(t, InitialUnitarySize(chunk_size, "int32", Len(xfer[t].elems)))
    /\ UNCHANGED <<mode, callVars, senderVars, streamVars, fieldVars, recvVars, apiVars>>

\* A later next() of thread t's generator: to the next yield or to its end.
ConcNext(t) ==
    /\ mode = "concurrent"
    /\ xfer[t].pc \in {"yield_empty", "yield_chunk"}
    /\ IF xfer[t].pc = "yield_chunk" /\ xfer[t].sent_length < Len(xfer[t].elems)
       THEN ConcLoopBody(t, xfer[t].unitary_size)
       ELSE /\ xfer' = [xfer EXCEPT ![t].pc = "done"]
            /\ UNCHANGED wire
    /\ UNCHANGED <<mode, callVars, senderVars, streamVars, fieldVars, recvVars, apiVars>>

NextConcurrent ==
    \/ \E t \in Threads : ConcStart(t)
    \/ \E t \in Threads : ConcNext(t)

SpecConcurrent == InitConcurrent /\ [][NextConcurrent]_vars

\* The same operations in a faulty environment: the progress bar may raise on
\* every call and the transport may fail while a chunk is written or read.
NextFaulty ==
    \/ Next
    \/ SendTransportError
    \/ GetChunkTransportError
    \/ FieldGetDataTransportError
SpecFaulty == InitFaulty /\ [][NextFaulty]_vars

\* ------------------------------------------------------------------ claims
Payloads(msgs) == Flatten([k \in 1..Len(msgs) |-> msgs[k].array])
Sending == mode = "loopback" /\ s_pc \in {"yield_empty", "yield_chunk", "done"}

\* C2: the payloads of the messages emitted so far, concatenated in emission
\* order, are the bytes of the elements sent so far, and once the sender has
\* ended they are the bytes of the whole array: nothing dropped, duplicated,
\* reordered or transformed.
C2_PayloadsAreArrayBytes ==
    Sending =>
        /\ Payloads(out) = tobytes(data.dtype, SubSeq(data.elems, 1, sent_length))
        /\ s_pc = "done" => Payloads(out) = tobytes(data.dtype, data.elems)

\* A send of three elements in chunks of two and one has ended.
C2_Witness ==
    /\ Sending /\ s_pc = "done"
    /\ Len(data.elems) = 3
    /\ Len(out) = 2 /\ Len(out[1].array) = 2 * itemsize(data.dtype)

\* C4: no emitted message carries more payload bytes than the chunk byte
\* budget, for every array and every budget of at least one element's bytes.
C4_PayloadWithinBudget ==
    (Sending /\ chunk_size >= itemsize(data.dtype)) =>
        \A k \in 1..Len(out) : Len(out[k].array) <= chunk_size

\* Two chunks with payload have been emitted under such a budget.
C4_Witness ==
    /\ Sending /\ chunk_size >= itemsize(data.dtype)
    /\ Len(out) = 2 /\ Len(out[1].array) > 0 /\ Len(out[2].array) > 0

\* C6: a send of an empty array emits exactly one message and ends, and the
\* receiver, given that message and size_tot = 0, returns an empty array (or
\* list) and raises nothing.
C6_EmptySendOneMessage ==
    (mode = "loopback" /\ Len(data.elems) = 0) =>
        /\ s_pc = "new" => out = <<>>
        /\ s_pc # "new" => (Len(out) = 1 /\ s_pc \in {"yield_empty", "done"})
        /\ s_pc = "done" => closed
        /\ r_pc # "raised"
        /\ r_pc = "returned" => (result = <<>> /\ consumed = 1 /\ s_pc = "done")

\* The empty send has ended and the receiver has returned.
C6_Witness ==
    /\ mode = "loopback" /\ Len(data.elems) = 0
    /\ s_pc = "done" /\ r_pc = "returned" /\ np_array

\* C7: the one message of an empty send carries an empty payload, whatever the
\* request object's payload field held before.
C7_EmptySendEmptyPayload ==
    (mode = "loopback" /\ Len(data.elems) = 0 /\ s_pc # "new") =>
        (Len(out) = 1 /\ out[1].array = <<>>)

Min(a, b) == IF a < b THEN a ELSE b
Max(a, b) == IF a < b THEN b ELSE a
CeilDiv(a, b) == (a + b - 1) \div b

\* C1: round trip.  For every array and every chunk byte budget, the receiver
\* fed the sender's messages in order, with size_tot the array's byte length,
\* returns, and returns exactly the array's elements in order.
C1_RoundTrip ==
    (mode = "loopback") => <>(r_pc = "returned" /\ result = data.elems)

\* C3: for every budget of at least one element's bytes the chunks are
\* consecutive ranges of the array without gap or overlap, each of at least
\* one element, and their lengths add up to the array's length.
C3_ChunksCoverArray ==
    (Sending /\ Len(data.elems) > 0 /\ chunk_size >= itemsize(data.dtype)) =>
        /\ Payloads(out) = tobytes(data.dtype, SubSeq(data.elems, 1, sent_length))
        /\ \A k \in 1..Len(out) : Len(out[k].array) >= itemsize(data.dtype)
        /\ s_pc = "done" => Len(Payloads(out)) = Len(data.elems) * itemsize(data.dtype)

\* C5: for every budget > 0 the sender emits max(1, budget / element size)
\* elements per chunk: every chunk advances the sent count and the loop ends
\* after exactly ceil(total / elements per chunk) chunks.
C5_LoopAdvancesAndEnds ==
    (Sending /\ Len(data.elems) > 0) =>
        LET per_chunk == Max(1, chunk_size \div getsizeof(data.dtype))
            chunks == CeilDiv(Len(data.elems), per_chunk)
        IN  /\ \A k \in 1..Len(out) : Len(out[k].array) > 0
            /\ Len(out) <= chunks
            /\ s_pc = "done" => Len(out) = chunks

\* C8: a chunk holds budget / item size elements (item size 8 for float64, 4
\* for int32), so 1,000,000 float64 go out as one chunk under a budget of
\* 8,000,000 bytes and as two chunks of 500,000 under 4,000,000 bytes.
C8_ElementsPerChunkByItemSize ==
    /\ (Sending /\ Len(data.elems) > 0) =>
          Len(out[1].array) = itemsize(data.dtype)
               * Min(Len(data.elems), chunk_size \div itemsize(data.dtype))
    /\ ChunkLengths(1000000, "float64", 8000000) = <<1000000>>
    /\ ChunkLengths(1000000, "float64", 4000000) = <<500000, 500000>>

IsIntegerText(v) ==
    LET body == IF v # <<>> /\ Head(v) \in {"-", "+"} THEN Tail(v) ELSE v
    IN  /\ body # <<>>
        /\ \A k \in 1..Len(body) :
              body[k] \in {"0", "1", "2", "3", "4", "5", "6", "7", "8", "9"}
SizeTotAbsent(meta) == \A k \in 1..Len(meta) : meta[k].key # "size_tot"
SizeTotMalformed(meta) ==
    \E k \in 1..Len(meta) : meta[k].key = "size_tot" /\ ~IsIntegerText(meta[k].value)
\* One of the two receivers has read the stream's metadata (the lists of ids of
\* a server below 2.1 come with no size_tot and are read by neither).
Received ==
    /\ r_pc \notin {"new", "idle", "loop_old"}
    /\ mode \in {"deep_copy", "get_ids"} => meets_version

NumElements(res) ==
    IF receiver = "_get_data" /\ ncomp # 1 THEN Len(res) * ncomp ELSE Len(res)

\* C10: when the stream delivers more bytes than size_tot announced, the
\* receiver returns normally an array of exactly size_tot / item size elements.
C10_ExcessIgnored ==
    (/\ mode = "server" /\ r_pc \in {"returned", "raised"} /\ consumed > 0
     /\ size >= 0 /\ got > size
     /\ (ncomp = 1 \/ size \div itemsize(dtype) = count * ncomp)) =>
        (r_pc = "returned" /\ NumElements(result) = size \div itemsize(dtype))

\* The stream has closed, every chunk consumed, with fewer payload bytes than the
\* size_tot it announced, and the receive call has ended.
ShortStreamEnded ==
    /\ mode = "server" /\ r_pc \in {"returned", "raised"}
    /\ closed /\ incoming = <<>>
    /\ got < size

\* C11: when the stream closes after fewer bytes than size_tot announced, the
\* receive call ends with an IncompleteTransferError and returns no buffer.
C11_ShortStreamRaises ==
    ShortStreamEnded =>
        (r_pc = "raised" /\ r_err = "IncompleteTransferError" /\ result = <<>>)

\* C20: when the stream closes after fewer bytes than size_tot announced, the
\* receiver returns normally a buffer shorter than declared, whose length is
\* the number of elements received, in the array mode and in the list mode.
C20_ShortStreamShortBuffer ==
    ShortStreamEnded =>
        /\ r_pc = "returned"
        /\ NumElements(result) = got \div itemsize(dtype)
        /\ NumElements(result) < size \div itemsize(dtype)

\* The receiver that writes into a preallocated array is at work or has returned.
Preallocating ==
    /\ (receiver = "_get_data" \/ np_array)
    /\ r_pc \in {"loop", "returned"}

\* The k-th element of the payloads consumed so far, in arrival order.
ArrivedElem(k) == IF mode = "server" THEN SrvElem(dtype, k) ELSE data.elems[k]

\* C19: in the preallocating receiver, after any number of chunks, the write
\* cursor is the sum of len(chunk) / item size over the chunks consumed and the
\* destination's first `cursor` elements are the consumed payloads in arrival
\* order.
C19_CursorAndPrefix ==
    Preallocating =>
        /\ i = got \div itemsize(dtype)
        /\ i <= Len(arr)
        /\ \A k \in 1..i : k \in written /\ arr[k] = ArrivedElem(k)

NonDecreasing(log) == \A k \in 1..(Len(log) - 1) : log[k] <= log[k + 1]
Last(log) == log[Len(log)]

\* C12: within a transfer that has a progress reporter, the cumulative counts
\* the reporter is given never decrease, and the last one given before the
\* transfer ends is the number of elements of the array transferred.
C12_ProgressCounts ==
    /\ NonDecreasing(s_progress) /\ NonDecreasing(r_progress)
    /\ (NeedBarSend /\ s_pc = "done") =>
          (s_progress # <<>> /\ Last(s_progress) = Len(data.elems))
    /\ (receiver = "_data_get_chunk_" /\ r_pc = "returned" /\ r_progress # <<>>) =>
          Last(r_progress) = Len(result)

\* C13: a progress reporter that raises on every call neither aborts a send or
\* a receive nor changes its outcome: the reporter's exception never leaves
\* the call, the sender that has ended has emitted the array's bytes and the
\* receiver that has returned in a loopback has returned the array.
C13_RaisingReporterNoEffect ==
    bar_raises =>
        /\ s_err # "ReporterError" /\ r_err # "ReporterError"
        /\ (mode = "loopback" /\ s_pc = "done") =>
              Payloads(out) = tobytes(data.dtype, data.elems)
        /\ (mode = "loopback" /\ r_pc = "returned" /\ chunk_size >= getsizeof(data.dtype)) =>
              result = data.elems

\* C16: an error the transport raises while a chunk is written or read reaches
\* the caller of the transfer as it is, no array is returned, and the failed
\* call does nothing further (no retry).
C16_TransportErrorPropagates ==
    /\ [](t_err # "" =>
            \/ r_pc = "raised" /\ r_err = t_err /\ result = <<>>
            \/ s_pc = "raised" /\ s_err = t_err)
    /\ [][/\ r_pc = "raised" => UNCHANGED <<r_pc, r_err, consumed, got, result>>
          /\ s_pc = "raised" => UNCHANGED <<s_pc, s_err, out>>]_vars

\* The transport has failed under a receiver that had already written part of
\* its array.
C16_Witness ==
    /\ t_err = "RpcError" /\ r_pc = "raised" /\ r_err = "RpcError"
    /\ np_array /\ written # {} /\ consumed >= 1 /\ incoming # <<>>

C17_DeepCopyEqualsOriginal ==
    /\ []((mode = "deep_copy" /\ api_pc = "returned") =>
            /\ scop.created
            /\ scop.ids = orig.ids
            /\ scop.location = orig.location)
    /\ [][mode = "deep_copy" => orig' = orig]_vars

\* A scoping of three ids, streamed by its server in two chunks, has been
\* copied.
C17_Witness ==
    /\ mode = "deep_copy" /\ api_pc = "returned"
    /\ Len(orig.ids) = 3 /\ consumed = 2 /\ orig.ids[1] # orig.ids[3]

FieldFromArrayEnded == mode = "field_from_array" /\ api_pc \in {"returned", "raised"}

\* What field_from_array must have done with an array it accepts: a field of
\* one entity per row, ids 1..nentities in increasing order, the array's data.
FieldBuilt(nentities) ==
    /\ api_pc = "returned" /\ field.created
    /\ field.nentities = nentities
    /\ field.ids = [k \in 1..nentities |-> [i |-> k]]
    /\ field.data = ArrayData(arr_in.shape)
FieldRefused(e) == api_pc = "raised" /\ api_err = e /\ ~field.created

C15_TransfersSerialized ==
    \A a, b, c \in 1..Len(wire) :
        (a < b /\ b < c /\ wire[a].t = wire[c].t) => wire[b].t = wire[a].t

\* C21: every message of a send carries the handle of the request it was
\* built from; the sender changes the payload field only, also in the single
\* message of an empty send.
C21_HandleUnchanged ==
    (s_pc # "idle") =>
        /\ request.scoping = NewRequest.scoping
        /\ \A k \in 1..Len(out) : out[k].scoping = NewRequest.scoping

\* A send of two chunks with different payloads has ended.
C21_Witness ==
    /\ mode = "loopback" /\ s_pc = "done"
    /\ Len(out) = 2 /\ out[1].array # out[2].array

\* C27: every message handed to the transport still carries its own chunk's
\* payload when it is read later, after the sender has produced further
\* chunks.
C27_MessagesKeepPayload ==
    Sending => \A k \in 1..Len(out) : MessageRead(k).array = out[k].array

\* C23: the sender never modifies the array it is given: from the start of a
\* send on, through every chunk and past its end, the array holds the same
\* elements.
C23_ArrayUnchanged ==
    [][s_pc # "idle" => data' = data]_vars

\* A send has emitted a first chunk and has more of the array to send.
C23_Witness ==
    /\ s_pc = "yield_chunk" /\ Len(out) = 1
    /\ 0 < sent_length /\ sent_length < Len(data.elems)

InLoop == r_pc = "loop"

\* C22, as claimed: in every receive size_tot is read from the initial
\* metadata once, before the first payload message is consumed, and the
\* destination buffer is allocated from it before any chunk is copied.
C22_BufferAllocatedFromSizeTot ==
    /\ [](InLoop =>
            /\ ReadSizeTot(metadata).bound /\ size = ReadSizeTot(metadata).val
            /\ consumed = 0 => (written = {} /\ i = 0)
            /\ consumed = 0 => Len(arr) = size \div itemsize(dtype))
    /\ [][InLoop => size' = size]_vars

\* C22, amended: size_tot is read once, before the first payload message is
\* consumed; Field._get_data and the preallocating mode of _data_get_chunk_
\* allocate the destination from it before any chunk is copied and never
\* resize it, while the list mode starts from an empty list.
C22_SizeReadBeforeChunks ==
    /\ [](InLoop =>
            /\ ReadSizeTot(metadata).bound /\ size = ReadSizeTot(metadata).val
            /\ consumed = 0 => (written = {} /\ i = 0)
            /\ Preallocating => Len(arr) = size \div itemsize(dtype)
            /\ (~Preallocating /\ consumed = 0) => arr = <<>>)
    /\ [][InLoop => size' = size]_vars

\* Field._get_data has allocated two slots and has not taken a chunk yet; the
\* list mode has read a size_tot of two items and starts from an empty list.
C22_Witness ==
    /\ InLoop /\ consumed = 0 /\ incoming # <<>> /\ size = 2 * itemsize(dtype)
    /\ \/ receiver = "_get_data" /\ Len(arr) = 2
       \/ receiver = "_data_get_chunk_" /\ ~np_array /\ arr = <<>>

\* The receive has returned from a stream that delivered exactly size_tot
\* bytes, every chunk of it on record.
ExactStreamReturned ==
    /\ mode \in {"loopback", "server"}
    /\ receiver = "_data_get_chunk_" /\ r_pc = "returned"
    /\ got = size /\ Len(taken) = consumed /\ consumed < MaxMsgs

\* C24: for a stream that delivers exactly size_tot bytes the two modes of
\* _data_get_chunk_ agree: what one mode returned is what the other mode
\* makes of the same chunks, same elements in the same order.
C24_ModesAgree ==
    ExactStreamReturned =>
        LET a == ArrayMode(dtype, size, taken)
            l == ListMode(dtype, taken)
        IN  /\ a.err = "" /\ l.err = ""
            /\ result = (IF np_array THEN l.arr ELSE a.arr)

\* C25: Field._get_data picks the element kind once from the field's datatype
\* (int32 for "int", float64 otherwise), announces it in the request metadata,
\* reads size_tot and every chunk with that item size, and reassembles the
\* chunks as the preallocating mode of _data_get_chunk_ does.
C25_FieldReadsAsArrayMode ==
    (receiver = "_get_data" /\ r_pc # "new") =>
        /\ float_or_double = (IF datatype = "int" THEN "int" ELSE "double")
        /\ dtype = (IF datatype = "int" THEN "int32" ELSE "float")
        /\ itemsize(dtype) = (IF datatype = "int" THEN 4 ELSE 8)
        /\ (r_pc \in {"loop", "returned"} /\ Len(taken) = consumed) =>
              LET a == ArrayMode(dtype, size, taken)
              IN  /\ a.err = ""
                  /\ arr = a.arr /\ written = a.written /\ i = a.i
                  /\ (r_pc = "returned" /\ ncomp = 1) =>
                        result \in Returned(a.arr, a.written, dtype)
        /\ (r_pc = "raised" /\ taken # <<>> /\ ncomp = 1) =>
              ArrayMode(dtype, size, taken).err = r_err

\* Field._get_data has returned the data of an "int" field that came in two
\* chunks.
C25_Witness ==
    /\ receiver = "_get_data" /\ datatype = "int" /\ r_pc = "returned"
    /\ Len(taken) = 2 /\ Len(result) = 2 /\ written = {1, 2}

\* C26: Scoping._get_ids returns the same on both sides of the version gate:
\* from a server that meets 2.1 (raw bytes in chunks) and from one below it
\* (the ids of each chunk, one after the other) it returns the ids the server
\* holds, in their order, with np_array false and with np_array true.
C26_GetIdsSameOnBothPaths ==
    (mode = "get_ids" /\ api_pc = "listing") =>
        /\ r_pc # "raised"
        /\ r_pc = "returned" => result = orig.ids

\* Three ids that came in two chunks have been returned by the path for
\* servers below 2.1.
C26_Witness ==
    /\ mode = "get_ids" /\ ~meets_version /\ r_pc = "returned"
    /\ Len(result) = 3 /\ result[1] # result[3]

\* self.shape, field.py 100-106: the pair (entities, components), or the bare
\* number of entities when there is one component; an array's shape is a tuple.
FieldShape == IF ncomp # 1 THEN [tuple |-> <<count, ncomp>>] ELSE [int |-> count]
ShapeDiffers == [tuple |-> arr_in.shape] # FieldShape
SizeDiffers == Product(arr_in.shape) # count * ncomp

\* C29: Field._set_data refuses a numpy array with ValueError, no UpdateData
\* request sent, exactly when its shape differs from the field's shape and its
\* number of elements differs from the field's size; every other array goes
\* out flattened, in row-major order, in one UpdateData request.
C29_SetDataRefusal ==
    (mode = "set_data" /\ api_pc # "set_data") =>
        IF ShapeDiffers /\ SizeDiffers
        THEN /\ api_pc = "raised" /\ api_err = "ValueError"
             /\ calls = <<>> /\ field.data = <<>>
        ELSE /\ api_pc = "returned" /\ api_err = ""
             /\ calls = <<UpdateData(ArrayData(arr_in.shape))>>
             /\ Len(calls[1].rep_double) = count * ncomp

\* A flat array of three values was sent to a field of one entity of three
\* components: another shape, the same size.
C29_Witness ==
    /\ mode = "set_data" /\ api_pc = "returned"
    /\ arr_in.shape = <<3>> /\ count = 1 /\ ncomp = 3 /\ Len(calls) = 1

\* C30: get_entity_data_by_id raises ValueError, no GetElementaryData request
\* sent, whenever the scoping reports a negative index for the id; otherwise
\* it returns what get_entity_data returns for the index reported.
C30_EntityDataById ==
    (mode = "entity_data" /\ api_pc # "get_entity_data_by_id") =>
        LET index == ScopingIndex(field.ids, ent_id)
        IN  IF index < 0
            THEN /\ api_pc = "raised" /\ api_err = "ValueError"
                 /\ calls = <<>> /\ result = <<>>
            ELSE /\ api_pc = "returned" /\ api_err = ""
                 /\ calls = <<GetElementaryData(index)>>
                 /\ result = get_entity_data(field, ncomp, index)

\* The data of the first entity (index 0) of a vector field were returned.
C30_Witness ==
    /\ mode = "entity_data" /\ api_pc = "returned"
    /\ ScopingIndex(field.ids, ent_id) = 0 /\ ncomp = 3 /\ Len(field.ids) = 2
    /\ result = <<<<11, 12, 13>>>>
====
